---------------------------- MODULE Spec2Model ----------------------------
(***************************************************************************)
(* Model of the backend of src/api/index.js: the three normalization       *)
(* functions, the authorization check, the login, and the request handlers *)
(* over the remote table store.                                            *)
(*                                                                         *)
(* JavaScript values are represented as follows.                           *)
(*   - a string is a sequence of atoms (an atom is a piece of text that    *)
(*     no operation of the program splits); the empty string is << >>;     *)
(*   - an absent (undefined / null) string-valued property is Undef;       *)
(*   - an absent numeric property is NoNum; numbers are naturals;          *)
(*   - a value that may or may not be an array is [isArray, items].        *)
(***************************************************************************)
EXTENDS Integers, Sequences, FiniteSets, TLC

(***************************************************************************)
(* Bounds of the model.                                                    *)
(***************************************************************************)
MaxLen == 2
MaxSabores == 3
MaxSizes == 2

(***************************************************************************)
(* JavaScript values.                                                      *)
(***************************************************************************)
Undef == <<"#undefined">>
NoNum == 0 - 1
NaN == 0 - 2

\* ToBoolean of a string-valued property: undefined, null and "" are falsy.
Truthy(s) == s # Undef /\ s # << >>

\* a || b on string-valued properties.
Or(a, b) == IF Truthy(a) THEN a ELSE b

\* n || 0 on numeric properties: undefined, NaN and 0 give 0.
OrZero(n) == IF n = NoNum \/ n = NaN THEN 0 ELSE n

JsArray(items) == [isArray |-> TRUE, items |-> items]
NotArray == [isArray |-> FALSE, items |-> << >>]

\* All sequences over S of length at most n.
SeqsUpTo(S, n) == UNION {[1..k -> S] : k \in 0..n}

MapSeq(F(_), s) == [i \in 1..Len(s) |-> F(s[i])]

\* String.prototype.toUpperCase on one character.
ToUpperCase(c) ==
    CASE c = "a" -> "A"
      [] c = "b" -> "B"
      [] c = "d" -> "D"
      [] c = "x" -> "X"
      [] OTHER -> c

\* s.charAt(0).toUpperCase() + s.slice(1)
Capitalize(s) == IF s = << >> THEN << >> ELSE <<ToUpperCase(Head(s))>> \o Tail(s)

(***************************************************************************)
(* normalizeCategories                                                     *)
(***************************************************************************)
\* An element of a categories array: a string, an object or null.
CatString(s) == [t |-> "string", s |-> s, id |-> Undef, name |-> Undef,
                 description |-> Undef]
CatObject(id, name, description) ==
    [t |-> "object", s |-> Undef, id |-> id, name |-> name,
     description |-> description]
CatNull == [t |-> "null", s |-> Undef, id |-> Undef, name |-> Undef,
            description |-> Undef]

CategoriaDe(s) == <<"Categoria de ">> \o s

\* The callback of categories.map.
normalizeCategory(cat) ==
    IF cat.t = "string"
    THEN CatObject(cat.s, Capitalize(cat.s), CategoriaDe(cat.s))
    ELSE IF cat.t = "object" /\ Truthy(cat.id)
    THEN CatObject(cat.id,
                   Or(cat.name, Capitalize(cat.id)),
                   Or(cat.description, CategoriaDe(Or(cat.name, cat.id))))
    ELSE CatNull

normalizeCategories(categories) ==
    IF ~categories.isArray THEN << >>
    ELSE SelectSeq(MapSeq(normalizeCategory, categories.items),
                   LAMBDA cat : cat # CatNull)


(***************************************************************************)
(* normalizeProducts                                                       *)
(***************************************************************************)
Sabor(name, image, quantity, description) ==
    [name |-> name, image |-> image, quantity |-> quantity,
     description |-> description]

\* A legacy color: sizes is an array of {stock} or is absent.
Color(name, image, sizes, quantity, description) ==
    [name |-> name, image |-> image, sizes |-> sizes, quantity |-> quantity,
     description |-> description]

\* An element of a products array: an object, a string or null.
Product(id, title, category, price, description, status, display_order, sabores, colors) ==
    [t |-> "object", id |-> id, title |-> title, category |-> category, price |-> price,
     description |-> description, status |-> status,
     display_order |-> display_order, sabores |-> sabores, colors |-> colors]
ProductString == [Product(NoNum, Undef, Undef, NoNum, Undef, Undef, NoNum, NotArray, NotArray) EXCEPT !.t = "string"]
ProductNull == [ProductString EXCEPT !.t = "null"]

SemNome == <<"Sem nome">>
Placeholder == <<"https://via.placeholder.com/400x300">>

\* color.sizes.reduce((total, size) => total + (size.stock || 0), 0)
RECURSIVE SumStock(_)
SumStock(sizes) ==
    IF sizes = << >> THEN 0
    ELSE OrZero(Head(sizes).stock) + SumStock(Tail(sizes))

\* The callback of product.colors.map.
colorToSabor(color) ==
    Sabor(Or(color.name, SemNome),
          Or(color.image, Placeholder),
          IF color.sizes.isArray THEN SumStock(color.sizes.items)
          ELSE OrZero(color.quantity),
          Or(color.description, << >>))

\* The comparator handed to sort: negative, zero or positive.
compareSabores(a, b) ==
    LET aStock == OrZero(a.quantity)
        bStock == OrZero(b.quantity)
    IN  IF aStock > 0 /\ bStock = 0 THEN 0 - 1
        ELSE IF aStock = 0 /\ bStock > 0 THEN 1
        ELSE 0

\* Array.prototype.sort is a stable sort: each element is inserted before the
\* first already placed element it compares less than.
InsertSorted(sorted, x) ==
    LET before == {i \in 1..Len(sorted) : compareSabores(x, sorted[i]) < 0}
        at == IF before = {} THEN Len(sorted) + 1
              ELSE CHOOSE i \in before : \A j \in before : i <= j
    IN  SubSeq(sorted, 1, at - 1) \o <<x>> \o SubSeq(sorted, at, Len(sorted))

RECURSIVE SortFrom(_, _)
SortFrom(sorted, rest) ==
    IF rest = << >> THEN sorted
    ELSE SortFrom(InsertSorted(sorted, Head(rest)), Tail(rest))

sortSabores(sabores) == SortFrom(<< >>, sabores)

\* The callback of sortedSabores.map.
fillSabor(sabor) ==
    Sabor(Or(sabor.name, SemNome),
          Or(sabor.image, Placeholder),
          OrZero(sabor.quantity),
          Or(sabor.description, << >>))

\* The callback of products.map; reading a property of null throws.
normalizeProduct(product) ==
    IF product.colors.isArray
    THEN [product EXCEPT
            !.sabores = JsArray(MapSeq(colorToSabor, product.colors.items))]
    ELSE IF product.sabores.isArray
    THEN [product EXCEPT
            !.sabores = JsArray(MapSeq(fillSabor,
                                       sortSabores(product.sabores.items)))]
    ELSE product

normalizeProductsThrows(products) ==
    products.isArray /\ \E i \in 1..Len(products.items) :
                            products.items[i].t = "null"

normalizeProducts(products) ==
    IF ~products.isArray THEN << >>
    ELSE MapSeq(normalizeProduct, products.items)

(***************************************************************************)
(* normalizeOrders                                                         *)
(***************************************************************************)
\* order.total: a number, a string or absent.
Num(n) == [t |-> "number", n |-> n, s |-> << >>]
NumStr(s) == [t |-> "string", n |-> NoNum, s |-> s]
NumUndef == [t |-> "undefined", n |-> NoNum, s |-> << >>]

IsDigit(c) == c \in {"0", "1", "2", "5"}
DigitValue(c) == CASE c = "0" -> 0 [] c = "1" -> 1 [] c = "2" -> 2 [] c = "5" -> 5

\* The value of the longest prefix of digits, NaN when there is none.
RECURSIVE ParseDigits(_, _)
ParseDigits(s, acc) ==
    IF s = << >> \/ ~IsDigit(Head(s)) THEN acc
    ELSE ParseDigits(Tail(s), 10 * OrZero(acc) + DigitValue(Head(s)))

parseFloat(x) ==
    CASE x.t = "number" -> x.n
      [] x.t = "string" -> ParseDigits(x.s, NaN)
      [] OTHER -> NaN

Order(id, date, time, customer_name, customerName, customer_phone, customerPhone, items, total, payment_method, paymentMethod, status, created_at, createdAt, updated_at) ==
    [id |-> id, date |-> date, time |-> time,
     customer_name |-> customer_name, customerName |-> customerName,
     customer_phone |-> customer_phone, customerPhone |-> customerPhone,
     items |-> items, total |-> total,
     payment_method |-> payment_method, paymentMethod |-> paymentMethod,
     status |-> status, created_at |-> created_at, createdAt |-> createdAt,
     updated_at |-> updated_at]

\* The callback of orders.map: the result has the camelCase properties only.
normalizeOrder(order) ==
    Order(order.id, order.date, order.time,
          Undef, Or(order.customer_name, order.customerName),
          Undef, Or(order.customer_phone, order.customerPhone),
          IF order.items.isArray THEN order.items ELSE JsArray(<< >>),
          Num(OrZero(parseFloat(order.total))),
          Undef, Or(order.payment_method, order.paymentMethod),
          Or(order.status, <<"pending">>),
          Undef, Or(order.created_at, order.createdAt), Undef)

normalizeOrders(orders) ==
    IF ~orders.isArray THEN << >>
    ELSE MapSeq(normalizeOrder, orders.items)

(***************************************************************************)
(* Authorization and the password transform                                *)
(***************************************************************************)
AuthToken == <<"authenticated_", "admin_token">>

\* Variants of checkAuth that accept every token, and none.
checkAuthAny(token) == TRUE
checkAuthNone(token) == FALSE

checkAuth(token) == token = AuthToken

\* s.replace(pattern, ""): the first occurrence of the pattern is removed.
RECURSIVE ReplaceFirst(_, _)
ReplaceFirst(s, pattern) ==
    IF s = << >> THEN << >>
    ELSE IF Head(s) = pattern THEN Tail(s)
    ELSE <<Head(s)>> \o ReplaceFirst(Tail(s), pattern)

\* authHeader.replace("Bearer ", "")
bearerToken(authHeader) == ReplaceFirst(authHeader, "Bearer ")

\* !authHeader || !checkAuth(authHeader.replace("Bearer ", ""))
Unauthorized(authHeader) ==
    ~Truthy(authHeader) \/ ~checkAuth(bearerToken(authHeader))

\* The character codes of the characters passwords are made of.
CharCode(c) ==
    CASE c = "a" -> 97 [] c = "d" -> 100 [] c = "i" -> 105 [] c = "m" -> 109
      [] c = "n" -> 110 [] c = "x" -> 120 [] c = "1" -> 49 [] c = "2" -> 50
      [] c = "3" -> 51

Base64Alphabet ==
    <<"A", "B", "C", "D", "E", "F", "G", "H", "I", "J", "K", "L", "M", "N", "O", "P",
      "Q", "R", "S", "T", "U", "V", "W", "X", "Y", "Z", "a", "b", "c", "d", "e", "f",
      "g", "h", "i", "j", "k", "l", "m", "n", "o", "p", "q", "r", "s", "t", "u", "v",
      "w", "x", "y", "z", "0", "1", "2", "3", "4", "5", "6", "7", "8", "9", "+", "/">>

Base64Char(n) == Base64Alphabet[n + 1]

\* Buffer.toString('base64') of a sequence of bytes.
RECURSIVE Base64(_)
Base64(b) ==
    IF b = << >> THEN << >>
    ELSE IF Len(b) = 1
    THEN <<Base64Char(b[1] \div 4), Base64Char((b[1] % 4) * 16), "=", "=">>
    ELSE IF Len(b) = 2
    THEN <<Base64Char(b[1] \div 4), Base64Char((b[1] % 4) * 16 + b[2] \div 16),
           Base64Char((b[2] % 16) * 4), "=">>
    ELSE <<Base64Char(b[1] \div 4), Base64Char((b[1] % 4) * 16 + b[2] \div 16),
           Base64Char((b[2] % 16) * 4 + b[3] \div 64), Base64Char(b[3] % 64)>>
         \o Base64(SubSeq(b, 4, Len(b)))

Reverse(s) == [i \in 1..Len(s) |-> s[Len(s) + 1 - i]]

\* Buffer.from(text).toString('base64').split('').reverse().join('')
simpleEncrypt(text) == Reverse(Base64(MapSeq(CharCode, text)))

(***************************************************************************)
(* The table store: what a call answers                                    *)
(***************************************************************************)
NoError == [code |-> "", message |-> << >>]
\* The table of the call does not exist.
MissingTable == [code |-> "42P01", message |-> <<"relation ", "does not exist">>]
\* Any other failure of the store.
StoreDown == [code |-> "08006", message |-> <<"connection failure">>]
\* .single() found no row, or more than one.
NoSingleRow == [code |-> "PGRST116", message |-> <<"JSON object requested, multiple (or no) rows returned">>]
\* An upsert naming the same key twice, an insert of a key that exists.
DuplicateKey == [code |-> "23505", message |-> <<"duplicate key value">>]
\* A delete that matched nothing, as the bulk category save expects it.
NoRowsFound == [code |-> "PGRST000", message |-> <<"No rows found">>]

\* What the store can answer to a call, apart from what the tables decide.
Failures == {NoError, MissingTable, StoreDown}

\* error.message.includes(text)
Includes(message, text) == \E i \in 1..Len(message) : message[i] = text

(***************************************************************************)
(* State                                                                   *)
(***************************************************************************)
VARIABLES
    products,     \* the products table: a set of rows
    categories,   \* the categories table
    orders,       \* the orders table
    credentials,  \* the admin_credentials table
    nextId,       \* the next id the store assigns to a product row
    nextOrderId,  \* the next id the store assigns to an order row
    boot,         \* where ensureAdminCredentials stands
    inflight,     \* the requests awaiting a store call, by slot
    last,         \* what the latest step answered, if it answered a request
    norm          \* a normalization function applied to an argument

vars == <<products, categories, orders, credentials, nextId, nextOrderId, boot, inflight, last, norm>>

\* Product rows the store may hold, orders it may hold, requests in flight.
MaxId == 3
MaxOrders == 1
MaxInFlight == 2

Slots == 1..MaxInFlight

\* The tables as a request finds them.
Tables ==
    [products |-> products, categories |-> categories, orders |-> orders,
     credentials |-> credentials]

Body(tag, error, token, data) ==
    [tag |-> tag, error |-> error, token |-> token, data |-> data]

ErrorBody(message) == Body("error", message, << >>, << >>)

\* A request answered: its route, Authorization header and body, the status
\* and body of the response, the store calls it issued, the error of its
\* failing call, the error it let pass, the tables as it found them, and
\* whether a store call of another request ran between its own.
Response(op, auth, arg, status, body, calls, err, pre, inter) ==
    [op |-> op, auth |-> auth, arg |-> arg, status |-> status, body |-> body,
     calls |-> calls, err |-> err, ignored |-> NoError, pre |-> pre,
     inter |-> inter]

NoArg == << >>
NoResponse == Response("none", Undef, NoArg, 0, Body("none", << >>, << >>, << >>), 0, NoError, [products |-> {}, categories |-> {}, orders |-> {}, credentials |-> {}], FALSE)

Idle == [op |-> "none", pc |-> "idle", auth |-> Undef, arg |-> NoArg, found |-> 0, calls |-> 0, ignored |-> NoError, pre |-> [products |-> {}, categories |-> {}, orders |-> {}, credentials |-> {}], inter |-> FALSE]

\* A store call of slot s (0: of a request that holds no slot) runs between
\* the calls of every other request in flight.
Touch(fl, s) ==
    [i \in Slots |-> IF i # s /\ fl[i].pc # "idle"
                     THEN [fl[i] EXCEPT !.inter = TRUE] ELSE fl[i]]

\* Slot s is the first free one of the first `lanes` slots.
FreeSlot(s, lanes) ==
    /\ s <= lanes
    /\ inflight[s].pc = "idle"
    /\ \A i \in Slots : i < s => inflight[i].pc # "idle"

\* The elements of S in the order Before, a strict total order on S.
SortSet(S, Before(_, _)) ==
    [i \in 1..Cardinality(S) |->
        CHOOSE x \in S : Cardinality({y \in S : Before(y, x)}) = i - 1]

\* The order of characters in the collation of the store.
Collation ==
    <<"'", "A", "D", "N", "P", "a", "d", "e", "f", "l", "t", "u">>
CharRank(c) == CHOOSE i \in 1..Len(Collation) : Collation[i] = c

RECURSIVE StringBefore(_, _)
StringBefore(a, b) ==
    IF b = << >> THEN FALSE
    ELSE IF a = << >> THEN TRUE
    ELSE IF Head(a) = Head(b) THEN StringBefore(Tail(a), Tail(b))
    ELSE CharRank(Head(a)) < CharRank(Head(b))

(***************************************************************************)
(* GET /api/products, /api/categories, /api/orders                         *)
(***************************************************************************)
\* The products returned when the table does not exist.
ProdutosExemploSemTabela ==
    <<Product(1, <<"Cerveja Heineken">>, <<"cerveja">>, 12, <<"Cerveja premium importada">>, <<"active">>, 1,
              JsArray(<<Sabor(<<"Long Neck">>, <<"https://via.placeholder.com/400x300/8B4513/FFFFFF?text=beer">>, 50, <<"Garrafa 330ml">>)>>), NotArray),
      Product(2, <<"Porcao de Batata Frita">>, <<"petisco">>, 25, <<"Porcao de batata frita crocante">>, <<"active">>, 2,
              JsArray(<<Sabor(<<"Media">>, <<"https://via.placeholder.com/400x300/8B4513/FFFFFF?text=fries">>, 20, <<"Porcao para 2 pessoas">>)>>), NotArray)>>

\* The products returned when the table is empty.
ProdutosExemploVazio ==
    <<Product(1, <<"Cerveja de Teste">>, <<"cerveja">>, 10, <<"Cerveja de exemplo para teste">>, <<"active">>, 1,
              JsArray(<<Sabor(<<"Long Neck">>, <<"https://via.placeholder.com/400x300/8B4513/FFFFFF?text=beer">>, 10, <<"Garrafa de teste">>)>>), NotArray)>>

CategoriasExemploSemTabela ==
    <<CatObject(<<"cerveja">>, <<"Cervejas">>, <<"Cervejas de diversos tipos e marcas">>),
      CatObject(<<"refrigerante">>, <<"Refrigerantes">>, <<"Refrigerantes e bebidas nao alcoolicas">>),
      CatObject(<<"petisco">>, <<"Petiscos">>, <<"Petiscos e acompanhamentos">>)>>

CategoriasExemploVazio ==
    <<CatObject(<<"cerveja">>, <<"Cervejas">>, <<"Cervejas diversas">>)>>

\* .order('display_order', {ascending: true, nullsFirst: false}).order('id')
ProductBefore(p, q) ==
    \/ p.display_order < q.display_order
    \/ p.display_order = q.display_order /\ p.id < q.id

\* .order('name'); rows of one name come by id.
CategoryBefore(c, d) ==
    \/ StringBefore(c.name, d.name)
    \/ c.name = d.name /\ StringBefore(c.id, d.id)

\* .order('created_at', {ascending: false}): rows are created in id order.
OrderBefore(o, q) == o.id > q.id

\* A variant of getProductsBody with no sample data for a missing table.
getProductsBodyNoSample(error) ==
    IF error # NoError
    THEN Body("empty", << >>, << >>, << >>)
    ELSE Body("list", << >>, << >>,
              normalizeProducts(JsArray(SortSet(products, ProductBefore))))

getProductsBody(error) ==
    IF error # NoError
    THEN IF Includes(error.message, "does not exist")
         THEN Body("sample", << >>, << >>, ProdutosExemploSemTabela)
         ELSE Body("empty", << >>, << >>, << >>)
    ELSE IF products = {}
    THEN Body("sample", << >>, << >>, ProdutosExemploVazio)
    ELSE Body("list", << >>, << >>,
              normalizeProducts(JsArray(SortSet(products, ProductBefore))))

getCategoriesBody(error) ==
    IF error # NoError
    THEN IF Includes(error.message, "does not exist")
         THEN Body("sample", << >>, << >>, CategoriasExemploSemTabela)
         ELSE Body("empty", << >>, << >>, << >>)
    ELSE IF categories = {}
    THEN Body("sample", << >>, << >>, CategoriasExemploVazio)
    ELSE Body("list", << >>, << >>,
              normalizeCategories(JsArray(SortSet(categories, CategoryBefore))))

getOrdersBody(error) ==
    IF error # NoError
    THEN IF Includes(error.message, "does not exist")
         THEN Body("empty", << >>, << >>, << >>)
         ELSE Body("empty", << >>, << >>, << >>)
    ELSE Body("list", << >>, << >>,
              normalizeOrders(JsArray(SortSet(orders, OrderBefore))))

GetProducts(failures) ==
    \E error \in failures :
        /\ last' = Response("GET /api/products", Undef, NoArg, 200, getProductsBody(error), 1, error, Tables, FALSE)
        /\ inflight' = Touch(inflight, 0)
        /\ UNCHANGED <<products, categories, orders, credentials, nextId, nextOrderId, boot, norm>>

GetCategories(failures) ==
    \E error \in failures :
        /\ last' = Response("GET /api/categories", Undef, NoArg, 200, getCategoriesBody(error), 1, error, Tables, FALSE)
        /\ inflight' = Touch(inflight, 0)
        /\ UNCHANGED <<products, categories, orders, credentials, nextId, nextOrderId, boot, norm>>

GetOrders(failures) ==
    \E error \in failures :
        /\ last' = Response("GET /api/orders", Undef, NoArg, 200, getOrdersBody(error), 1, error, Tables, FALSE)
        /\ inflight' = Touch(inflight, 0)
        /\ UNCHANGED <<products, categories, orders, credentials, nextId, nextOrderId, boot, norm>>

(***************************************************************************)
(* POST /api/orders, POST /api/orders/update-status                        *)
(***************************************************************************)
\* orderData.total || 0
TotalOrZero(total) ==
    IF total.t = "number" /\ OrZero(total.n) # 0 THEN total
    ELSE IF total.t = "string" /\ total.s # << >> THEN total
    ELSE Num(0)

\* The row inserted; the store assigns id and created_at.
orderToSave(orderData, id) ==
    Order(id, orderData.date, orderData.time, orderData.customerName, Undef,
          orderData.customerPhone, Undef,
          IF orderData.items.isArray THEN orderData.items ELSE JsArray(<< >>),
          TotalOrZero(orderData.total), orderData.paymentMethod, Undef,
          Or(orderData.status, <<"pending">>), <<ToString(id)>>, Undef, Undef)

\* req.body.orderData: absent, or an order in its camelCase shape.
NoOrderData == [present |-> FALSE, o |-> Order(NoNum, Undef, Undef, Undef, Undef, Undef, Undef, NotArray, NumUndef, Undef, Undef, Undef, Undef, Undef, Undef)]
OrderDataInputs ==
    {NoOrderData}
    \cup {[present |-> TRUE, o |-> Order(NoNum, <<"d">>, <<"h">>, Undef, customerName, Undef, <<"9">>, items, total, Undef, <<"pix">>, status, Undef, Undef, Undef)] :
            customerName \in {Undef, << >>, <<"A">>},
            items \in {NotArray, JsArray(<<"item">>)},
            total \in {NumUndef, Num(7)},
            status \in {Undef, <<"done">>}}

\* A variant of invalidOrder that does not look at customerName.
invalidOrderNoName(orderData) == ~orderData.present

\* !orderData || !orderData.customerName
invalidOrder(orderData) == ~orderData.present \/ ~Truthy(orderData.o.customerName)

PostOrders(inputs, failures) ==
    \E orderData \in inputs, error \in failures :
        LET op == "POST /api/orders" IN
        IF invalidOrder(orderData)
        THEN /\ last' = Response(op, Undef, orderData, 400, ErrorBody(<<"Dados do pedido invalidos">>), 0, NoError, Tables, FALSE)
             /\ UNCHANGED <<products, categories, orders, credentials, nextId, nextOrderId, boot, inflight, norm>>
        ELSE IF error # NoError
        THEN /\ last' = Response(op, Undef, orderData, 500, ErrorBody(<<"Erro ao salvar pedido: ">> \o error.message), 1, error, Tables, FALSE)
             /\ inflight' = Touch(inflight, 0)
             /\ UNCHANGED <<products, categories, orders, credentials, nextId, nextOrderId, boot, norm>>
        ELSE /\ nextOrderId <= MaxOrders
             /\ orders' = orders \cup {orderToSave(orderData.o, nextOrderId)}
             /\ nextOrderId' = nextOrderId + 1
             /\ last' = Response(op, Undef, orderData, 200, Body("success", << >>, << >>, <<nextOrderId>>), 1, NoError, Tables, FALSE)
             /\ inflight' = Touch(inflight, 0)
             /\ UNCHANGED <<products, categories, credentials, nextId, boot, norm>>

\* new Date().toISOString()
Now == <<"now">>

UpdateStatus(orderIds, statuses, failures) ==
    \E orderId \in orderIds, status \in statuses, error \in failures :
        LET op == "POST /api/orders/update-status"
            arg == [orderId |-> orderId, status |-> status]
        IN
        IF OrZero(orderId) = 0 \/ ~Truthy(status)
        THEN /\ last' = Response(op, Undef, arg, 400, ErrorBody(<<"ID do pedido e status sao obrigatorios">>), 0, NoError, Tables, FALSE)
             /\ UNCHANGED <<products, categories, orders, credentials, nextId, nextOrderId, boot, inflight, norm>>
        ELSE IF error # NoError
        THEN /\ last' = Response(op, Undef, arg, 500, ErrorBody(<<"Erro ao atualizar status do pedido: ">> \o error.message), 1, error, Tables, FALSE)
             /\ inflight' = Touch(inflight, 0)
             /\ UNCHANGED <<products, categories, orders, credentials, nextId, nextOrderId, boot, norm>>
        ELSE /\ orders' = {IF o.id = orderId THEN [o EXCEPT !.status = status, !.updated_at = Now] ELSE o : o \in orders}
             /\ last' = Response(op, Undef, arg, 200, Body("success", << >>, << >>, status), 1, NoError, Tables, FALSE)
             /\ inflight' = Touch(inflight, 0)
             /\ UNCHANGED <<products, categories, credentials, nextId, nextOrderId, boot, norm>>

(***************************************************************************)
(* POST /api/auth/login, GET /api/auth/verify, ensureAdminCredentials      *)
(***************************************************************************)
Admin == <<"admin">>
Admin123 == <<"a", "d", "m", "i", "n", "1", "2", "3">>
LoginToken == <<"authenticated_", "admin_token">>

Credential(username, password, encrypted_password) ==
    [username |-> username, password |-> password,
     encrypted_password |-> encrypted_password]

\* .select('*').eq('username', username).single(): the one row, or an error.
selectSingle(rows, error) ==
    IF error # NoError
    THEN [found |-> FALSE, row |-> Credential(Undef, Undef, Undef), error |-> error]
    ELSE IF Cardinality(rows) = 1
    THEN [found |-> TRUE, row |-> CHOOSE r \in rows : TRUE, error |-> NoError]
    ELSE [found |-> FALSE, row |-> Credential(Undef, Undef, Undef), error |-> NoSingleRow]

WithUsername(username) == {c \in credentials : c.username = username}

Reply(status, body) == [status |-> status, body |-> body]

TokenBody(username) == Body("token", << >>, LoginToken, username)

\* A variant of loginReply that compares the plaintext column only.
loginReplyPlainOnly(username, password, result) ==
    IF result.error # NoError
    THEN IF Includes(result.error.message, "does not exist") \/ result.error.code = "PGRST116"
         THEN IF username = Admin /\ password = Admin123
              THEN Reply(200, TokenBody(Admin))
              ELSE Reply(401, ErrorBody(<<"Credenciais invalidas">>))
         ELSE Reply(401, ErrorBody(<<"Erro no sistema">>))
    ELSE IF ~result.found
    THEN Reply(401, ErrorBody(<<"Credenciais invalidas">>))
    ELSE IF password = result.row.password
    THEN Reply(200, TokenBody(username))
    ELSE Reply(401, ErrorBody(<<"Credenciais invalidas">>))

\* The handler after the lookup answered.
loginReply(username, password, result) ==
    IF result.error # NoError
    THEN IF Includes(result.error.message, "does not exist") \/ result.error.code = "PGRST116"
         THEN IF username = Admin /\ password = Admin123
              THEN Reply(200, TokenBody(Admin))
              ELSE Reply(401, ErrorBody(<<"Credenciais invalidas">>))
         ELSE Reply(401, ErrorBody(<<"Erro no sistema">>))
    ELSE IF ~result.found
    THEN Reply(401, ErrorBody(<<"Credenciais invalidas">>))
    ELSE LET isPlainPasswordValid == password = result.row.password
             isPasswordValid == simpleEncrypt(password) = result.row.encrypted_password
         IN  IF isPasswordValid \/ isPlainPasswordValid
             THEN Reply(200, TokenBody(username))
             ELSE Reply(401, ErrorBody(<<"Credenciais invalidas">>))

Login(usernames, passwords, failures) ==
    \E username \in usernames, password \in passwords, error \in failures :
        LET op == "POST /api/auth/login"
            arg == [username |-> username, password |-> password]
            result == selectSingle(WithUsername(username), error)
            reply == loginReply(username, password, result)
        IN
        IF ~Truthy(username) \/ ~Truthy(password)
        THEN /\ last' = Response(op, Undef, arg, 400, ErrorBody(<<"Usuario e senha sao obrigatorios">>), 0, NoError, Tables, FALSE)
             /\ UNCHANGED <<products, categories, orders, credentials, nextId, nextOrderId, boot, inflight, norm>>
        ELSE /\ last' = Response(op, Undef, arg, reply.status, reply.body, 1, result.error, Tables, FALSE)
             /\ inflight' = Touch(inflight, 0)
             /\ UNCHANGED <<products, categories, orders, credentials, nextId, nextOrderId, boot, norm>>

\* The Authorization headers requests carry.
Headers ==
    {Undef, << >>,
     <<"Bearer ", "authenticated_", "admin_token">>,
     <<"Bearer ", "wrong">>,
     <<"Bearer ">>,
     <<"Bearer ", "Bearer ", "authenticated_", "admin_token">>,
     <<"Bearer ", "authenticated_", "admin_token", "x">>,
     <<"authenticated_", "admin_token">>,
     <<"authenticated_", "Bearer ", "admin_token">>}

Verify(headers) ==
    \E authHeader \in headers :
        LET token == IF authHeader = Undef THEN Undef ELSE bearerToken(authHeader)
        IN  /\ last' = Response("GET /api/auth/verify", authHeader, NoArg, 200,
                                IF Truthy(token) /\ checkAuth(token)
                                THEN Body("valid", << >>, << >>, Admin)
                                ELSE Body("invalid", << >>, << >>, << >>),
                                0, NoError, Tables, FALSE)
            /\ UNCHANGED <<products, categories, orders, credentials, nextId, nextOrderId, boot, inflight, norm>>

\* ensureAdminCredentials, first call: is there a row of admin?
EnsureAdminSelect(failures) ==
    \E error \in failures :
        LET result == selectSingle(WithUsername(Admin), error) IN
        /\ boot = "select"
        /\ boot' = IF result.error # NoError \/ ~result.found THEN "insert" ELSE "done"
        /\ last' = NoResponse
        /\ inflight' = Touch(inflight, 0)
        /\ UNCHANGED <<products, categories, orders, credentials, nextId, nextOrderId, norm>>

\* ensureAdminCredentials, second call: the row of admin is inserted; the
\* table has one row for a username.
EnsureAdminInsert(failures) ==
    \E error \in failures :
        /\ boot = "insert"
        /\ boot' = "done"
        /\ credentials' = IF error # NoError \/ WithUsername(Admin) # {} THEN credentials
                          ELSE credentials \cup {Credential(Admin, Admin123, simpleEncrypt(Admin123))}
        /\ last' = NoResponse
        /\ inflight' = Touch(inflight, 0)
        /\ UNCHANGED <<products, categories, orders, nextId, nextOrderId, norm>>

(***************************************************************************)
(* POST /api/products                                                      *)
(***************************************************************************)
CatA == <<"a">>
QuotedA == <<"'", "a", "'">>
Default == <<"d", "e", "f", "a", "u", "l", "t">>

\* The product sets requests carry: two products of category a, one with
\* flavors to sort and one with legacy colors; one product of the default
\* category; a set holding null.
ProductsAB ==
    JsArray(<<Product(NoNum, <<"t1">>, CatA, 10, Undef, <<"active">>, NoNum,
                      JsArray(<<Sabor(<<"x">>, Undef, 0, Undef), Sabor(Undef, Undef, 2, Undef)>>), NotArray),
              Product(7, <<"t2">>, CatA, 5, <<"d">>, Undef, 1, NotArray,
                      JsArray(<<Color(<<"Red">>, Undef, JsArray(<<[stock |-> 3], [stock |-> 2]>>), NoNum, Undef)>>))>>)
ProductsA ==
    JsArray(<<Product(NoNum, <<"t1">>, CatA, 10, Undef, Undef, NoNum, NotArray, NotArray)>>)
ProductsC ==
    JsArray(<<Product(NoNum, <<"t3">>, Default, NoNum, Undef, Undef, 2, NotArray, NotArray)>>)
ProductsNull == JsArray(<<ProductNull>>)

\* The row inserted for a normalized product; the store assigns the id.
productToInsert(product, id) ==
    Product(id, product.title, product.category, product.price,
            product.description, product.status, OrZero(product.display_order),
            product.sabores, NotArray)

\* A variant of productsToInsert that inserts the first product only.
productsToInsertFirst(normalizedProducts, firstId) ==
    {productToInsert(normalizedProducts[1], firstId)}

productsToInsert(normalizedProducts, firstId) ==
    {productToInsert(normalizedProducts[i], firstId + i - 1) : i \in 1..Len(normalizedProducts)}

\* A variant of AfterDeleteAll that deletes nothing.
AfterDeleteNone(rows) == rows

\* .delete().neq('id', 0): the rows that stay.
AfterDeleteAll(rows) == {p \in rows : p.id = 0}

NullError == [code |-> "TypeError", message |-> <<"Cannot read properties of null">>]

Request(op, pc, auth, arg, found, calls, pre) ==
    [op |-> op, pc |-> pc, auth |-> auth, arg |-> arg, found |-> found,
     calls |-> calls, ignored |-> NoError, pre |-> pre, inter |-> FALSE]

\* The request arrives: authorization, normalization, the delete call.
SaveProductsDelete(headers, inputs, failures, lanes) ==
    \E authHeader \in headers, arg \in inputs, error \in failures, s \in Slots :
        LET op == "POST /api/products" IN
        /\ FreeSlot(s, lanes)
        /\ IF Unauthorized(authHeader)
           THEN /\ last' = Response(op, authHeader, arg, 401, ErrorBody(<<"Nao autorizado">>), 0, NoError, Tables, FALSE)
                /\ UNCHANGED <<products, inflight>>
           ELSE IF normalizeProductsThrows(arg)
           THEN /\ last' = Response(op, authHeader, arg, 500, ErrorBody(<<"Erro ao salvar produtos: ">> \o NullError.message), 0, NoError, Tables, FALSE)
                /\ UNCHANGED <<products, inflight>>
           ELSE IF error # NoError
           THEN /\ last' = Response(op, authHeader, arg, 500, ErrorBody(<<"Erro ao salvar produtos: ">> \o error.message), 1, error, Tables, FALSE)
                /\ inflight' = Touch(inflight, 0)
                /\ UNCHANGED products
           ELSE /\ products' = AfterDeleteAll(products)
                /\ IF Len(normalizeProducts(arg)) > 0
                   THEN /\ inflight' = [Touch(inflight, s) EXCEPT ![s] = Request(op, "insert", authHeader, arg, 0, 1, Tables)]
                        /\ last' = NoResponse
                   ELSE /\ inflight' = Touch(inflight, 0)
                        /\ last' = Response(op, authHeader, arg, 200, Body("success", << >>, << >>, <<0>>), 1, NoError, Tables, FALSE)
        /\ UNCHANGED <<categories, orders, credentials, nextId, nextOrderId, boot, norm>>

\* A variant of SaveProductsInsert that puts the deleted rows back when the
\* insert failed.
SaveProductsInsertRollback(failures) ==
    \E s \in Slots, error \in failures :
        LET r == inflight[s]
            normalizedProducts == normalizeProducts(r.arg)
        IN
        /\ r.pc = "insert"
        /\ inflight' = [Touch(inflight, s) EXCEPT ![s] = Idle]
        /\ IF error # NoError
           THEN /\ last' = Response(r.op, r.auth, r.arg, 500, ErrorBody(<<"Erro ao salvar produtos: ">> \o error.message), 2, error, r.pre, r.inter)
                /\ products' = r.pre.products
                /\ UNCHANGED nextId
           ELSE /\ nextId + Len(normalizedProducts) - 1 <= MaxId
                /\ products' = products \cup productsToInsert(normalizedProducts, nextId)
                /\ nextId' = nextId + Len(normalizedProducts)
                /\ last' = Response(r.op, r.auth, r.arg, 200, Body("success", << >>, << >>, <<Len(normalizedProducts)>>), 2, NoError, r.pre, r.inter)
        /\ UNCHANGED <<categories, orders, credentials, nextOrderId, boot, norm>>

\* The delete call answered without error: the insert call.
SaveProductsInsert(failures) ==
    \E s \in Slots, error \in failures :
        LET r == inflight[s]
            normalizedProducts == normalizeProducts(r.arg)
        IN
        /\ r.pc = "insert"
        /\ inflight' = [Touch(inflight, s) EXCEPT ![s] = Idle]
        /\ IF error # NoError
           THEN /\ last' = Response(r.op, r.auth, r.arg, 500, ErrorBody(<<"Erro ao salvar produtos: ">> \o error.message), 2, error, r.pre, r.inter)
                /\ UNCHANGED <<products, nextId>>
           ELSE /\ nextId + Len(normalizedProducts) - 1 <= MaxId
                /\ products' = products \cup productsToInsert(normalizedProducts, nextId)
                /\ nextId' = nextId + Len(normalizedProducts)
                /\ last' = Response(r.op, r.auth, r.arg, 200, Body("success", << >>, << >>, <<Len(normalizedProducts)>>), 2, NoError, r.pre, r.inter)
        /\ UNCHANGED <<categories, orders, credentials, nextOrderId, boot, norm>>

(***************************************************************************)
(* POST /api/categories/add                                                *)
(***************************************************************************)
\* req.body.category: absent, or an object.
NoCategory == [present |-> FALSE, c |-> CatNull]
CategoryInput(id, name, description) == [present |-> TRUE, c |-> CatObject(id, name, description)]
CategoryQuotedA == CategoryInput(QuotedA, <<"N">>, Undef)

\* .upsert(rows, {onConflict: 'id'}): a row replaces the row of its id.
Upsert(table, rows) ==
    {c \in table : \A r \in rows : r.id # c.id} \cup rows

AddCategory(headers, inputs, failures) ==
    \E authHeader \in headers, arg \in inputs, error \in failures :
        LET op == "POST /api/categories/add"
            category == arg.c
            row == CatObject(category.id, category.name,
                             Or(category.description, CategoriaDe(category.name)))
        IN
        /\ IF Unauthorized(authHeader)
           THEN /\ last' = Response(op, authHeader, arg, 401, ErrorBody(<<"Nao autorizado">>), 0, NoError, Tables, FALSE)
                /\ UNCHANGED <<categories, inflight>>
           ELSE IF ~arg.present \/ ~Truthy(category.id) \/ ~Truthy(category.name)
           THEN /\ last' = Response(op, authHeader, arg, 400, ErrorBody(<<"Dados da categoria invalidos">>), 0, NoError, Tables, FALSE)
                /\ UNCHANGED <<categories, inflight>>
           ELSE IF error # NoError
           THEN /\ last' = Response(op, authHeader, arg, 500, ErrorBody(<<"Erro ao adicionar categoria: ">> \o error.message), 1, error, Tables, FALSE)
                /\ inflight' = Touch(inflight, 0)
                /\ UNCHANGED categories
           ELSE /\ categories' = Upsert(categories, {row})
                /\ last' = Response(op, authHeader, arg, 200, Body("success", << >>, << >>, category.name), 1, NoError, Tables, FALSE)
                /\ inflight' = Touch(inflight, 0)
        /\ UNCHANGED <<products, orders, credentials, nextId, nextOrderId, boot, norm>>

(***************************************************************************)
(* POST /api/categories/delete                                             *)
(***************************************************************************)
\* .from('products').select('id, title').eq('category', categoryId)
ProductsInCategory(categoryId) == {p \in products : p.category = categoryId}

\* A variant of MoveToDefault that moves nothing.
MoveNothing(rows, categoryId) == rows

\* .update({category: 'default'}).eq('category', categoryId)
MoveToDefault(rows, categoryId) ==
    {IF p.category = categoryId THEN [p EXCEPT !.category = Default] ELSE p : p \in rows}

\* .from('categories').delete().eq('id', categoryId)
DeleteCategoryRow(rows, categoryId) == {c \in rows : c.id # categoryId}

\* A variant of ErroExcluir that leaves the store's message out.
ErroExcluirSemMensagem(error) == ErrorBody(<<"Erro ao excluir categoria: ">>)

ErroExcluir(error) == ErrorBody(<<"Erro ao excluir categoria: ">> \o error.message)

\* The request arrives: authorization, validation, the lookup of the
\* products of the category.
DeleteCategorySelect(headers, inputs, failures, lanes) ==
    \E authHeader \in headers, categoryId \in inputs, error \in failures, s \in Slots :
        LET op == "POST /api/categories/delete"
            found == Cardinality(ProductsInCategory(categoryId))
        IN
        /\ FreeSlot(s, lanes)
        /\ IF Unauthorized(authHeader)
           THEN /\ last' = Response(op, authHeader, categoryId, 401, ErrorBody(<<"Nao autorizado">>), 0, NoError, Tables, FALSE)
                /\ UNCHANGED inflight
           ELSE IF ~Truthy(categoryId)
           THEN /\ last' = Response(op, authHeader, categoryId, 400, ErrorBody(<<"ID da categoria e obrigatorio">>), 0, NoError, Tables, FALSE)
                /\ UNCHANGED inflight
           ELSE IF error # NoError
           THEN /\ last' = Response(op, authHeader, categoryId, 500, ErroExcluir(error), 1, error, Tables, FALSE)
                /\ inflight' = Touch(inflight, 0)
           ELSE /\ last' = NoResponse
                /\ inflight' = [Touch(inflight, s) EXCEPT ![s] =
                        Request(op, IF found > 0 THEN "update" ELSE "delete", authHeader, categoryId, found, 1, Tables)]
        /\ UNCHANGED <<products, categories, orders, credentials, nextId, nextOrderId, boot, norm>>

\* A variant of DeleteCategoryUpdate that goes on to the delete when the
\* update failed.
DeleteCategoryUpdateUnchecked(failures) ==
    \E s \in Slots, error \in failures :
        LET r == inflight[s] IN
        /\ r.op = "POST /api/categories/delete" /\ r.pc = "update"
        /\ products' = IF error # NoError THEN products ELSE MoveToDefault(products, r.arg)
        /\ last' = NoResponse
        /\ inflight' = [Touch(inflight, s) EXCEPT ![s].pc = "delete", ![s].calls = 2]
        /\ UNCHANGED <<categories, orders, credentials, nextId, nextOrderId, boot, norm>>

\* Products were found: they are moved to the default category.
DeleteCategoryUpdate(failures) ==
    \E s \in Slots, error \in failures :
        LET r == inflight[s] IN
        /\ r.op = "POST /api/categories/delete" /\ r.pc = "update"
        /\ IF error # NoError
           THEN /\ last' = Response(r.op, r.auth, r.arg, 500, ErroExcluir(error), 2, error, r.pre, r.inter)
                /\ inflight' = [Touch(inflight, s) EXCEPT ![s] = Idle]
                /\ UNCHANGED products
           ELSE /\ products' = MoveToDefault(products, r.arg)
                /\ last' = NoResponse
                /\ inflight' = [Touch(inflight, s) EXCEPT ![s].pc = "delete", ![s].calls = 2]
        /\ UNCHANGED <<categories, orders, credentials, nextId, nextOrderId, boot, norm>>

\* The row of the category is deleted.
DeleteCategoryDelete(failures) ==
    \E s \in Slots, error \in failures :
        LET r == inflight[s] IN
        /\ r.op = "POST /api/categories/delete" /\ r.pc = "delete"
        /\ inflight' = [Touch(inflight, s) EXCEPT ![s] = Idle]
        /\ IF error # NoError
           THEN /\ last' = Response(r.op, r.auth, r.arg, 500, ErroExcluir(error), r.calls + 1, error, r.pre, r.inter)
                /\ UNCHANGED categories
           ELSE /\ categories' = DeleteCategoryRow(categories, r.arg)
                /\ last' = Response(r.op, r.auth, r.arg, 200, Body("success", << >>, << >>, <<r.found>>), r.calls + 1, NoError, r.pre, r.inter)
        /\ UNCHANGED <<products, orders, credentials, nextId, nextOrderId, boot, norm>>

(***************************************************************************)
(* POST /api/categories                                                    *)
(***************************************************************************)
\* The category sets requests carry.
CategoriesA == JsArray(<<CatString(CatA)>>)
CategoriesADefault == JsArray(<<CatString(CatA), CatObject(Default, Undef, <<"D">>)>>)
CategoriesTwice == JsArray(<<CatString(CatA), CatObject(CatA, <<"N">>, Undef)>>)
CategoriesEmptyId == JsArray(<<CatString(<< >>)>>)
CategoriesNull == JsArray(<<CatNull>>)

\* `'${id}'`
Quote(id) == <<"'">> \o id \o <<"'">>

\* strings.join(separator)
RECURSIVE Join(_, _)
Join(strings, separator) ==
    IF strings = << >> THEN << >>
    ELSE IF Len(strings) = 1 THEN strings[1]
    ELSE strings[1] \o <<separator>> \o Join(Tail(strings), separator)

\* `(${categoryIds.map(id => `'${id}'`).join(',')})`
idList(categoryIds) == <<"(">> \o Join(MapSeq(Quote, categoryIds), ",") \o <<")">>

\* The store reads the list of an `in` filter: the text between the
\* parentheses, cut at the commas. An element stands for itself unless it is
\* written in double quotes; a single quote is a character like any other.
RECURSIVE SplitAtCommas(_, _)
SplitAtCommas(text, element) ==
    IF text = << >> THEN {element}
    ELSE IF Head(text) = "," THEN {element} \cup SplitAtCommas(Tail(text), << >>)
    ELSE SplitAtCommas(Tail(text), element \o <<Head(text)>>)

ListValues(list) == SplitAtCommas(SubSeq(list, 2, Len(list) - 1), << >>)

\* .delete().not('id', 'in', list): the rows that stay.
AfterDeleteNotIn(rows, list) == {c \in rows : c.id \in ListValues(list)}

\* An upsert naming one id twice is refused by the store.
CardinalityViolation == [code |-> "21000", message |-> <<"ON CONFLICT DO UPDATE command cannot affect row a second time">>]

categoriesToUpsert(normalizedCategories) ==
    {CatObject(normalizedCategories[i].id, normalizedCategories[i].name, normalizedCategories[i].description) :
        i \in 1..Len(normalizedCategories)}

HasDuplicateIds(normalizedCategories) ==
    \E i, j \in 1..Len(normalizedCategories) :
        i # j /\ normalizedCategories[i].id = normalizedCategories[j].id

ErroSalvarCategorias(error) == ErrorBody(<<"Erro ao salvar categorias: ">> \o error.message)

\* The request arrives: authorization, normalization, validation, the delete
\* of the rows whose id is not in the list. The store may answer a delete
\* that matched no row with "No rows found", which the handler lets pass.
SaveCategoriesDelete(headers, inputs, failures, lanes) ==
    \E authHeader \in headers, arg \in inputs, error \in failures \cup {NoRowsFound}, s \in Slots :
        LET op == "POST /api/categories"
            normalizedCategories == normalizeCategories(arg)
            categoryIds == MapSeq(LAMBDA cat : cat.id, normalizedCategories)
            kept == AfterDeleteNotIn(categories, idList(categoryIds))
        IN
        /\ FreeSlot(s, lanes)
        /\ error = NoRowsFound => kept = categories
        /\ IF Unauthorized(authHeader)
           THEN /\ last' = Response(op, authHeader, arg, 401, ErrorBody(<<"Nao autorizado">>), 0, NoError, Tables, FALSE)
                /\ UNCHANGED <<categories, inflight>>
           ELSE IF Len(normalizedCategories) = 0
           THEN /\ last' = Response(op, authHeader, arg, 400, ErrorBody(<<"Nenhuma categoria fornecida">>), 0, NoError, Tables, FALSE)
                /\ UNCHANGED <<categories, inflight>>
           ELSE IF error # NoError /\ ~Includes(error.message, "No rows found")
           THEN /\ last' = Response(op, authHeader, arg, 500, ErroSalvarCategorias(error), 1, error, Tables, FALSE)
                /\ inflight' = Touch(inflight, 0)
                /\ UNCHANGED categories
           ELSE /\ categories' = IF error = NoError THEN kept ELSE categories
                /\ last' = NoResponse
                /\ inflight' = [Touch(inflight, s) EXCEPT ![s] =
                        [Request(op, "upsert", authHeader, arg, 0, 1, Tables) EXCEPT !.ignored = error]]
        /\ UNCHANGED <<products, orders, credentials, nextId, nextOrderId, boot, norm>>

\* The delete call passed: the upsert call.
SaveCategoriesUpsert(failures) ==
    \E s \in Slots, failure \in failures :
        LET r == inflight[s]
            normalizedCategories == normalizeCategories(r.arg)
            error == IF failure = NoError /\ HasDuplicateIds(normalizedCategories)
                     THEN CardinalityViolation ELSE failure
        IN
        /\ r.pc = "upsert"
        /\ inflight' = [Touch(inflight, s) EXCEPT ![s] = Idle]
        /\ IF error # NoError
           THEN /\ last' = [Response(r.op, r.auth, r.arg, 500, ErroSalvarCategorias(error), 2, error, r.pre, r.inter) EXCEPT !.ignored = r.ignored]
                /\ UNCHANGED categories
           ELSE /\ categories' = Upsert(categories, categoriesToUpsert(normalizedCategories))
                /\ last' = [Response(r.op, r.auth, r.arg, 200, Body("success", << >>, << >>, <<Len(normalizedCategories)>>), 2, NoError, r.pre, r.inter) EXCEPT !.ignored = r.ignored]
        /\ UNCHANGED <<products, orders, credentials, nextId, nextOrderId, boot, norm>>

(***************************************************************************)
(* The program                                                             *)
(***************************************************************************)
NormIdle == [fn |-> "none", arg |-> NotArray, pass |-> 0, once |-> << >>, twice |-> << >>]

\* The admin_credentials table as the process finds it: empty, holding the
\* row an earlier start created, or that row with its plaintext column
\* edited since.
InitialCredentials ==
    {{},
     {Credential(Admin, Admin123, simpleEncrypt(Admin123))},
     {Credential(Admin, <<"n", "i", "m", "d", "a">>, simpleEncrypt(Admin123))}}

InitStore ==
    /\ products = {}
    /\ categories = {}
    /\ orders = {}
    /\ nextId = 1
    /\ nextOrderId = 1
    /\ inflight = [s \in Slots |-> Idle]
    /\ last = NoResponse

\* The catalogue: the handlers that write products and categories.
Authorized == <<"Bearer ", "authenticated_", "admin_token">>

Init ==
    /\ InitStore
    /\ credentials = {}
    /\ boot = "done"
    /\ norm = NormIdle

\* The store answers, or is out of reach.
UpOrDown == {NoError, StoreDown}

Next ==
    \/ SaveProductsDelete({Authorized}, {JsArray(<< >>), ProductsAB, ProductsC}, UpOrDown, 1)
    \/ SaveProductsInsert(UpOrDown)
    \/ AddCategory({Authorized}, {CategoryQuotedA}, UpOrDown)
    \/ DeleteCategorySelect({Authorized}, {CatA, Default}, UpOrDown, 1)
    \/ DeleteCategoryUpdate(UpOrDown)
    \/ DeleteCategoryDelete(UpOrDown)
    \/ SaveCategoriesDelete({Authorized}, {CategoriesA, CategoriesADefault}, UpOrDown, 1)
    \/ SaveCategoriesUpsert(UpOrDown)

Spec == Init /\ [][Next]_vars


\* Every handler, with requests that are and are not authorized, that do and
\* do not pass validation, and store calls that fail in either way.
SomeHeaders ==
    {Authorized, <<"Bearer ", "wrong">>}

SomeOrders ==
    {NoOrderData}
    \cup {[present |-> TRUE, o |-> Order(NoNum, <<"d">>, <<"h">>, Undef, customerName, Undef, <<"9">>, NotArray, Num(7), Undef, <<"pix">>, Undef, Undef, Undef, Undef)] :
            customerName \in {Undef, <<"A">>}}

SomeCategories ==
    {NoCategory, CategoryInput(CatA, Undef, Undef),
     CategoryInput(CatA, <<"A">>, <<"Categoria de ", "a">>)}

InitAll ==
    /\ InitStore
    /\ credentials = {Credential(Admin, Admin123, simpleEncrypt(Admin123))}
    /\ boot = "done"
    /\ norm = NormIdle

NextAll ==
    \/ GetProducts(Failures)
    \/ GetCategories(Failures)
    \/ GetOrders(Failures)
    \/ PostOrders(SomeOrders, Failures)
    \/ UpdateStatus({NoNum, 1}, {Undef, <<"done">>}, Failures)
    \/ Login({Admin}, {Admin123}, Failures)
    \/ Verify({Authorized})
    \/ SaveProductsDelete(SomeHeaders, {NotArray, ProductsA}, Failures, 1)
    \/ SaveProductsInsert(Failures)
    \/ AddCategory(SomeHeaders, SomeCategories, Failures)
    \/ DeleteCategorySelect(SomeHeaders, {Undef, << >>, CatA}, Failures, 1)
    \/ DeleteCategoryUpdate(Failures)
    \/ DeleteCategoryDelete(Failures)
    \/ SaveCategoriesDelete(SomeHeaders, {CategoriesNull, CategoriesA}, Failures, 1)
    \/ SaveCategoriesUpsert(Failures)

SpecAll == InitAll /\ [][NextAll]_vars

\* The bearer token: the protected handlers, logins and token checks, with
\* every kind of Authorization header.
InitAuth ==
    /\ InitStore
    /\ credentials = {Credential(Admin, Admin123, simpleEncrypt(Admin123))}
    /\ boot = "done"
    /\ norm = NormIdle

NextAuth ==
    \/ Login({Admin}, {Admin123, <<"x">>}, {NoError})
    \/ Verify(Headers)
    \/ SaveProductsDelete(Headers, {NotArray, ProductsA}, {NoError}, 1)
    \/ SaveProductsInsert({NoError})
    \/ AddCategory(Headers, {NoCategory, CategoryInput(CatA, <<"N">>, Undef)}, {NoError})
    \/ DeleteCategorySelect(Headers, {Undef, CatA}, {NoError}, 1)
    \/ DeleteCategoryUpdate({NoError})
    \/ DeleteCategoryDelete({NoError})
    \/ SaveCategoriesDelete(Headers, {CategoriesNull, CategoriesA}, {NoError}, 1)
    \/ SaveCategoriesUpsert({NoError})

SpecAuth == InitAuth /\ [][NextAuth]_vars

\* The administrator: the start of the process, logins and token checks.
Usernames == {Undef, << >>, Admin, <<"x">>}
Passwords == {Undef, << >>, Admin123, <<"n", "i", "m", "d", "a">>, <<"x">>}

InitLogin ==
    /\ InitStore
    /\ credentials \in InitialCredentials
    /\ boot = "select"
    /\ norm = NormIdle

NextLogin ==
    \/ EnsureAdminSelect(Failures)
    \/ EnsureAdminInsert(Failures)
    \/ Login(Usernames, Passwords, Failures)
    \/ Verify(Headers)

SpecLogin == InitLogin /\ [][NextLogin]_vars

\* The race: two saves of products in flight side by side, never more.
InitRace ==
    /\ InitStore
    /\ credentials = {}
    /\ boot = "done"
    /\ norm = NormIdle

NextRace ==
    \/ SaveProductsDelete({Authorized}, {ProductsAB, ProductsC}, UpOrDown, 2)
    \/ SaveProductsInsert(UpOrDown)

SpecRace == InitRace /\ [][NextRace]_vars
(***************************************************************************)
(* The normalization functions applied to bounded inputs.                  *)
(***************************************************************************)
CatElements ==
    {CatString(s) : s \in {<< >>, <<"a">>, <<"b", "x">>}}
    \cup {CatObject(id, name, description) :
            id \in {Undef, << >>, <<"a">>},
            name \in {Undef, << >>, <<"N">>},
            description \in {Undef, <<"D">>}}
    \cup {CatNull}

SaborElements ==
    {Sabor(name, Undef, quantity, Undef) :
        name \in {Undef, <<"x">>, <<"y">>}, quantity \in {NoNum, 0, 2}}
    \cup {Sabor(<<"z">>, <<"img">>, 1, <<"d">>)}

SizesValues ==
    {NotArray} \cup {JsArray(s) : s \in SeqsUpTo({[stock |-> k] : k \in {NoNum, 2, 3}}, MaxSizes)}

ColorElements ==
    {Color(name, Undef, sizes, quantity, Undef) :
        name \in {Undef, <<"Red">>}, sizes \in SizesValues,
        quantity \in {NoNum, 5}}

\* Products with flavors, with legacy colors, with both and with neither.
RichProducts ==
    {Product(NoNum, <<"t">>, <<"a">>, 10, Undef, <<"active">>, NoNum, JsArray(s), NotArray) :
        s \in SeqsUpTo(SaborElements, MaxSabores)}
    \cup {Product(NoNum, <<"t">>, <<"a">>, 10, Undef, Undef, 1, sab, JsArray(<<c>>)) :
            c \in ColorElements,
            sab \in {NotArray, JsArray(<<Sabor(<<"x">>, Undef, 0, Undef), Sabor(<<"y">>, Undef, 2, Undef)>>)}}
    \cup {Product(NoNum, <<"t">>, <<"a">>, 10, Undef, Undef, 1, NotArray,
                  JsArray(<<Color(<<"Red">>, <<"img">>, NotArray, 0, <<"d">>),
                            Color(<<"Blue">>, Undef, JsArray(<<[stock |-> 3], [stock |-> 2]>>), 5, Undef)>>))}

SmallProducts ==
    {Product(NoNum, Undef, Undef, NoNum, Undef, Undef, NoNum, NotArray, NotArray),
     Product(NoNum, <<"t">>, <<"a">>, 10, <<"d">>, <<"active">>, 2,
             JsArray(<<Sabor(<<"x">>, Undef, 0, Undef), Sabor(Undef, Undef, 2, Undef)>>), NotArray),
     Product(7, <<"u">>, <<"b">>, 5, Undef, Undef, 0, NotArray,
             JsArray(<<Color(<<"Red">>, Undef, JsArray(<< >>), 5, Undef)>>)),
     ProductString}

RichOrders ==
    {Order(1, <<"d">>, Undef, customer_name, customerName, Undef, <<"9">>, items, total, payment_method, <<"pix">>, status, created_at, createdAt, Undef) :
        customer_name \in {Undef, << >>, <<"A">>},
        customerName \in {Undef, <<"B">>},
        items \in {NotArray, JsArray(<< >>), JsArray(<<"item">>)},
        total \in {NumUndef, Num(0), Num(7), Num(NaN), NumStr(<< >>), NumStr(<<"x">>), NumStr(<<"1", "2">>), NumStr(<<"5", "x">>)},
        payment_method \in {Undef, <<"cash">>},
        status \in {Undef, << >>, <<"done">>},
        created_at \in {Undef, <<"t1">>},
        createdAt \in {Undef, <<"t2">>}}

SmallOrders ==
    {Order(NoNum, Undef, Undef, Undef, Undef, Undef, Undef, NotArray, NumUndef, Undef, Undef, Undef, Undef, Undef, Undef),
     Order(2, <<"d">>, <<"h">>, <<"A">>, <<"B">>, <<"8">>, <<"9">>, JsArray(<<"item">>), NumStr(<<"1", "2">>), <<"cash">>, <<"pix">>, <<"done">>, <<"t1">>, <<"t2">>, <<"t3">>)}

\* The arguments a normalization function is applied to.
NormInputs(fn) ==
    CASE fn = "categories" ->
            {NotArray} \cup {JsArray(s) : s \in SeqsUpTo(CatElements, MaxLen)}
      [] fn = "products" ->
            {NotArray} \cup {JsArray(<<p>>) : p \in RichProducts}
            \cup {JsArray(s) : s \in SeqsUpTo(SmallProducts, MaxLen)}
      [] fn = "orders" ->
            {NotArray} \cup {JsArray(<<o>>) : o \in RichOrders}
            \cup {JsArray(s) : s \in SeqsUpTo(SmallOrders, MaxLen)}

Normalize(fn, arg) ==
    CASE fn = "categories" -> normalizeCategories(arg)
      [] fn = "products" -> normalizeProducts(arg)
      [] fn = "orders" -> normalizeOrders(arg)

InitNorm ==
    /\ InitStore
    /\ credentials = {}
    /\ boot = "done"
    /\ \E fn \in {"categories", "products", "orders"} :
           \E arg \in NormInputs(fn) :
              norm = [fn |-> fn, arg |-> arg, pass |-> 0, once |-> << >>, twice |-> << >>]

\* result = normalizeX(arg)
NormalizeOnce ==
    /\ norm.pass = 0
    /\ UNCHANGED <<products, categories, orders, credentials, nextId, nextOrderId, boot, inflight, last>>
    /\ norm' = [norm EXCEPT !.pass = 1, !.once = Normalize(norm.fn, norm.arg)]

\* A read path normalizes data that is normalized already.
NormalizeAgain ==
    /\ norm.pass = 1
    /\ UNCHANGED <<products, categories, orders, credentials, nextId, nextOrderId, boot, inflight, last>>
    /\ norm' = [norm EXCEPT !.pass = 2,
                            !.twice = Normalize(norm.fn, JsArray(norm.once))]

NextNorm == NormalizeOnce \/ NormalizeAgain

SpecNorm == InitNorm /\ [][NextNorm]_vars

(***************************************************************************)
(* C10: every normalization function is idempotent: for every input array  *)
(* A, normalizeX(normalizeX(A)) = normalizeX(A), for categories, products  *)
(* and orders.                                                             *)
(***************************************************************************)
C10_Idempotent == norm.pass = 2 => norm.twice = norm.once

\* The same, one function at a time.
IdempotentCategories == norm.fn = "categories" => C10_Idempotent
IdempotentProducts == norm.fn = "products" => C10_Idempotent
IdempotentOrders == norm.fn = "orders" => C10_Idempotent

(***************************************************************************)
(* Claims about the catalogue handlers                                     *)
(***************************************************************************)
DeletedCategory ==
    last.op = "POST /api/categories/delete" /\ last.status = 200 /\ ~last.inter

\* Every product the request found in category X is in category "default".
MovedToDefault ==
    \A p \in last.pre.products :
        p.category = last.arg =>
            \E q \in products : q.id = p.id /\ q.category = Default

NoRowOfCategory == \A c \in categories : c.id # last.arg

(***************************************************************************)
(* C1, as stated: after an authorized POST /api/categories/delete for X    *)
(* that answered success with no other request between its steps, every    *)
(* product whose category was X has category "default", no product has     *)
(* category X, and the categories table holds no row with id X.            *)
(***************************************************************************)
C1_AsStated ==
    DeletedCategory =>
        /\ MovedToDefault
        /\ \A q \in products : q.category # last.arg
        /\ NoRowOfCategory

(***************************************************************************)
(* C1, amended: the same, where no product has category X unless X is      *)
(* "default" itself (the products of "default" stay in "default").         *)
(***************************************************************************)
C1_DeleteCategory ==
    DeletedCategory =>
        /\ MovedToDefault
        /\ last.arg # Default => \A q \in products : q.category # last.arg
        /\ NoRowOfCategory

C1_Witness ==
    /\ DeletedCategory
    /\ Cardinality({p \in last.pre.products : p.category = last.arg}) = 2
    /\ \E c \in last.pre.categories : c.id = last.arg

SavedProducts ==
    last.op = "POST /api/products" /\ last.status = 200 /\ ~last.inter

\* The row carries the fields of the normalized product.
RowCarries(row, product) ==
    /\ row.title = product.title
    /\ row.category = product.category
    /\ row.price = product.price
    /\ row.description = product.description
    /\ row.status = product.status
    /\ row.sabores = product.sabores
    /\ row.display_order = IF product.display_order = NoNum THEN 0 ELSE product.display_order

(***************************************************************************)
(* C2: after an authorized POST /api/products that answered success with   *)
(* no other request between its steps, no row that was in the table before *)
(* remains, and the table holds exactly one row per element of             *)
(* normalizeProducts(P), carrying its fields with display_order defaulting *)
(* to 0; it is empty when P normalizes to the empty sequence.              *)
(***************************************************************************)
C2_SaveProducts ==
    SavedProducts =>
        LET normalized == normalizeProducts(last.arg) IN
        /\ \A p \in products : \A q \in last.pre.products : p.id # q.id
        /\ Cardinality(products) = Len(normalized)
        /\ \E rowOf \in [1..Len(normalized) -> products] :
              /\ \A i, j \in 1..Len(normalized) : rowOf[i] = rowOf[j] => i = j
              /\ \A i \in 1..Len(normalized) : RowCarries(rowOf[i], normalized[i])

C2_Witness ==
    /\ SavedProducts
    /\ last.pre.products # {}
    /\ Len(normalizeProducts(last.arg)) = 2

C2_WitnessEmpty ==
    /\ SavedProducts
    /\ last.pre.products # {}
    /\ normalizeProducts(last.arg) = << >>

SavedCategories ==
    last.op = "POST /api/categories" /\ last.status = 200 /\ ~last.inter

(***************************************************************************)
(* C3: after an authorized POST /api/categories with a set C whose         *)
(* normalization is not empty, that answered success with no other request *)
(* between its steps, the ids in the categories table are the ids of       *)
(* normalizeCategories(C), each row carries the normalized name and        *)
(* description, and the products table is unchanged.                       *)
(***************************************************************************)
C3_SaveCategories ==
    SavedCategories =>
        LET normalized == normalizeCategories(last.arg) IN
        /\ {c.id : c \in categories} = {normalized[i].id : i \in 1..Len(normalized)}
        /\ \A i \in 1..Len(normalized) :
              \E c \in categories :
                  /\ c.id = normalized[i].id
                  /\ c.name = normalized[i].name
                  /\ c.description = normalized[i].description
        /\ products = last.pre.products

\* The same, for a table none of whose ids is a supplied id in single quotes.
SaveCategoriesUnquoted ==
    (\A c \in last.pre.categories : \A d \in categories : c.id # Quote(d.id))
        => C3_SaveCategories

(***************************************************************************)
(* Claims about authorization                                              *)
(***************************************************************************)
Protected ==
    {"POST /api/products", "POST /api/categories", "POST /api/categories/add",
     "POST /api/categories/delete"}

\* The header has the form "Bearer <token>"; its token is what follows.
IsBearer(header) == header # Undef /\ header # << >> /\ Head(header) = "Bearer "

NoValidToken(header) ==
    header = Undef \/ (IsBearer(header) /\ Tail(header) # LoginToken)

(***************************************************************************)
(* C4: on each of the four protected endpoints, a request whose            *)
(* Authorization header is absent, or whose bearer token is not the one    *)
(* constant token, is answered 401 and makes no store call, so the tables  *)
(* are as it found them, whatever its body is.                             *)
(***************************************************************************)
C4_Unauthorized ==
    last.op \in Protected /\ NoValidToken(last.auth) =>
        /\ last.status = 401
        /\ last.calls = 0
        /\ Tables = last.pre

C4_Witness ==
    /\ last.op \in Protected
    /\ IsBearer(last.auth) /\ Tail(last.auth) # LoginToken
    /\ last.status = 401
    /\ products # {}
    /\ categories # {}

(***************************************************************************)
(* C5: GET /api/auth/verify answers valid exactly when the presented       *)
(* bearer token is the constant every successful login returns, and        *)
(* invalid for any other token or an absent header, in every state that    *)
(* logins, failed logins, saves and deletes lead to.                       *)
(***************************************************************************)
C5_Verify ==
    /\ last.op = "POST /api/auth/login" /\ last.status = 200 => last.body.token = LoginToken
    /\ last.op = "GET /api/auth/verify" /\ last.auth = Undef => last.body.tag = "invalid"
    /\ last.op = "GET /api/auth/verify" /\ IsBearer(last.auth) =>
          /\ last.body.tag \in {"valid", "invalid"}
          /\ last.body.tag = "valid" <=> Tail(last.auth) = LoginToken

C5_Witness ==
    /\ last.op = "GET /api/auth/verify"
    /\ IsBearer(last.auth)
    /\ last.body.tag = "valid"
    /\ products # {}
    /\ categories # {}

(***************************************************************************)
(* C6: a login with non-empty username and password whose lookup returns   *)
(* carries the token if and only if (a) a row of that username was found   *)
(* and the password equals its plaintext password or simpleEncrypt of the  *)
(* password equals its encrypted password, or (b) the table is absent or   *)
(* holds no row of that username and the pair is admin/admin123; in every  *)
(* other case the answer is 401 and carries no token.                      *)
(***************************************************************************)
C6_Login ==
    last.op = "POST /api/auth/login" /\ Truthy(last.arg.username) /\ Truthy(last.arg.password) =>
        LET rows == {c \in last.pre.credentials : c.username = last.arg.username}
            rowMatches ==
                /\ last.err = NoError
                /\ \E c \in rows :
                      \/ last.arg.password = c.password
                      \/ simpleEncrypt(last.arg.password) = c.encrypted_password
            fallback ==
                /\ \/ Includes(last.err.message, "does not exist")
                   \/ last.err = NoSingleRow /\ rows = {}
                /\ last.arg.username = Admin
                /\ last.arg.password = Admin123
        IN  IF rowMatches \/ fallback
            THEN last.status = 200 /\ last.body.token = LoginToken
            ELSE last.status = 401 /\ last.body.token = << >>

\* The encrypted column matches while the plaintext column does not.
C6_Witness ==
    /\ last.op = "POST /api/auth/login"
    /\ last.status = 200
    /\ last.err = NoError
    /\ \E c \in last.pre.credentials :
          /\ c.username = last.arg.username
          /\ c.password # last.arg.password
          /\ c.encrypted_password = simpleEncrypt(last.arg.password)

(***************************************************************************)
(* Claims about validation and store errors                                *)
(***************************************************************************)
FailsValidation ==
    \/ last.op = "POST /api/orders"
          /\ (~last.arg.present \/ ~Truthy(last.arg.o.customerName))
    \/ last.op = "POST /api/orders/update-status"
          /\ (last.arg.orderId \in {NoNum, 0} \/ ~Truthy(last.arg.status))
    \/ last.op = "POST /api/categories/add"
          /\ (~last.arg.present \/ ~Truthy(last.arg.c.id) \/ ~Truthy(last.arg.c.name))
    \/ last.op = "POST /api/categories/delete" /\ ~Truthy(last.arg)
    \/ last.op = "POST /api/categories" /\ normalizeCategories(last.arg) = << >>

Rejected == last.status = 400 /\ last.calls = 0 /\ Tables = last.pre

(***************************************************************************)
(* C7, as stated: in every handler a request that fails validation is      *)
(* answered 400 and no store call is made for it, so the store is          *)
(* unchanged.                                                              *)
(***************************************************************************)
C7_AsStated == FailsValidation => Rejected

(***************************************************************************)
(* C7, amended: the same for a request that passes the authorization check *)
(* of its endpoint (the check comes first and answers 401).                *)
(***************************************************************************)
C7_Validation ==
    FailsValidation /\ (last.op \in Protected => last.auth = Authorized) => Rejected

C7_Witness ==
    /\ last.op = "POST /api/categories"
    /\ last.auth = Authorized
    /\ FailsValidation
    /\ last.status = 400
    /\ categories # {}

MissingTableFailure == last.err # NoError /\ Includes(last.err.message, "does not exist")

Reads == {"GET /api/products", "GET /api/categories", "GET /api/orders"}

(***************************************************************************)
(* C8, as stated: in every handler, when a store call fails with the       *)
(* missing-table error the response is a hardcoded sample or an empty      *)
(* sequence and never an error response, for reads and writes alike.       *)
(***************************************************************************)
C8_AsStated ==
    MissingTableFailure =>
        last.status = 200 /\ last.body.tag \in {"sample", "empty"}

(***************************************************************************)
(* C8, amended: in the three read handlers, when the store call fails with *)
(* the missing-table error the response is 200 with the hardcoded sample   *)
(* (products, categories) or an empty sequence (orders).                   *)
(***************************************************************************)
C8_MissingTable ==
    MissingTableFailure /\ last.op \in Reads =>
        /\ last.status = 200
        /\ last.op = "GET /api/products" =>
              last.body.tag = "sample" /\ last.body.data = ProdutosExemploSemTabela
        /\ last.op = "GET /api/categories" =>
              last.body.tag = "sample" /\ last.body.data = CategoriasExemploSemTabela
        /\ last.op = "GET /api/orders" =>
              last.body.tag = "empty" /\ last.body.data = << >>

C8_Witness ==
    /\ MissingTableFailure
    /\ last.op = "GET /api/products"
    /\ last.body.tag = "sample"
    /\ categories # {}

\* An error of a store call of the request that is not the missing-table
\* error.
OtherFailures ==
    {e \in {last.err, last.ignored} : e # NoError /\ ~Includes(e.message, "does not exist")}

\* The fixed prefix of the handler's 500 responses.
Prefix ==
    CASE last.op = "POST /api/orders" -> <<"Erro ao salvar pedido: ">>
      [] last.op = "POST /api/orders/update-status" -> <<"Erro ao atualizar status do pedido: ">>
      [] last.op = "POST /api/products" -> <<"Erro ao salvar produtos: ">>
      [] last.op = "POST /api/categories/add" -> <<"Erro ao adicionar categoria: ">>
      [] last.op = "POST /api/categories/delete" -> <<"Erro ao excluir categoria: ">>
      [] last.op = "POST /api/categories" -> <<"Erro ao salvar categorias: ">>
      [] OTHER -> << >>

Writes ==
    {"POST /api/orders", "POST /api/orders/update-status", "POST /api/products",
     "POST /api/categories/add", "POST /api/categories/delete", "POST /api/categories"}

(***************************************************************************)
(* C9, as stated: in every handler, when a store call fails with an error  *)
(* that is not the missing-table error, the response is a 500 whose        *)
(* message is the handler's prefix followed by the store's message, the    *)
(* three GET handlers and the login included.                              *)
(***************************************************************************)
C9_AsStated ==
    \A e \in OtherFailures :
        last.status = 500 /\ last.body.error = Prefix \o e.message

(***************************************************************************)
(* C9, amended: in the six write handlers, when a store call fails with an *)
(* error that is not the missing-table error, the response is a 500 whose  *)
(* message is the handler's prefix followed by the store's message, except *)
(* that POST /api/categories lets a "No rows found" error of its delete    *)
(* call pass.                                                              *)
(***************************************************************************)
C9_StoreError ==
    \A e \in OtherFailures :
        /\ last.op \in Writes
        /\ ~(last.op = "POST /api/categories" /\ e = last.ignored /\ Includes(e.message, "No rows found"))
        => last.status = 500 /\ last.body.error = Prefix \o e.message

\* The third store call of a delete fails.
C9_Witness ==
    /\ last.op = "POST /api/categories/delete"
    /\ last.err = StoreDown
    /\ last.calls = 3
    /\ last.status = 500
    /\ \E p \in products : p.category = Default

(***************************************************************************)
(* Claims about normalizeProducts                                          *)
(***************************************************************************)
NormalizedProducts == norm.fn = "products" /\ norm.pass >= 1 /\ norm.arg.isArray

IsAvailable(sabor) == sabor.quantity > 0
IsSoldOut(sabor) == sabor.quantity = 0

\* No flavor with quantity 0 is immediately followed by one with quantity > 0.
AvailableFirst(sabores) ==
    \A k \in 1..(Len(sabores) - 1) :
        ~(IsSoldOut(sabores[k]) /\ IsAvailable(sabores[k + 1]))

\* The flavors with quantity > 0 are in their input order, and so are the
\* flavors with quantity 0.
StablePartition(input, output) ==
    /\ SelectSeq(output, IsAvailable) = SelectSeq(MapSeq(fillSabor, input), IsAvailable)
    /\ SelectSeq(output, IsSoldOut) = SelectSeq(MapSeq(fillSabor, input), IsSoldOut)

ArrivedWithColors(product) == product.t = "object" /\ product.colors.isArray
ArrivedWithFlavors(product) ==
    product.t = "object" /\ ~product.colors.isArray /\ product.sabores.isArray

(***************************************************************************)
(* C11: in every product of the output of normalizeProducts that carries   *)
(* flavors, whether it arrived with flavors or with legacy colors, no      *)
(* flavor with quantity 0 is immediately followed by a flavor with         *)
(* quantity > 0; and for a product that arrived with flavors, the flavors  *)
(* with quantity > 0 keep their input order and so do those with           *)
(* quantity 0.                                                             *)
(***************************************************************************)
C11_AvailableFirst ==
    NormalizedProducts =>
        \A i \in 1..Len(norm.once) :
            LET product == norm.arg.items[i]
                normalized == norm.once[i]
            IN  /\ normalized.sabores.isArray => AvailableFirst(normalized.sabores.items)
                /\ ArrivedWithFlavors(product) =>
                      StablePartition(product.sabores.items, normalized.sabores.items)

\* The same, for the products that arrived with flavors and no colors.
FlavorsAvailableFirst ==
    NormalizedProducts =>
        \A i \in 1..Len(norm.once) :
            LET product == norm.arg.items[i]
                normalized == norm.once[i]
            IN  ArrivedWithFlavors(product) =>
                  /\ AvailableFirst(normalized.sabores.items)
                  /\ StablePartition(product.sabores.items, normalized.sabores.items)

\* A sold-out flavor and an available one arrive in the wrong order.
FlavorsReordered ==
    /\ NormalizedProducts
    /\ \E i \in 1..Len(norm.once) :
          /\ ArrivedWithFlavors(norm.arg.items[i])
          /\ ~AvailableFirst(MapSeq(fillSabor, norm.arg.items[i].sabores.items))

\* The sum of the stock of the sizes, an absent stock counting as 0.
RECURSIVE StockOf(_)
StockOf(sizes) ==
    IF sizes = << >> THEN 0
    ELSE (IF Head(sizes).stock = NoNum THEN 0 ELSE Head(sizes).stock) + StockOf(Tail(sizes))

HasSizes(color) == color.sizes.isArray /\ color.sizes.items # << >>

\* The flavor is the color carried over: quantity from the sizes or from the
\* direct quantity, name, image and description carried over or defaulted.
FlavorOfColor(sabor, color) ==
    /\ sabor.quantity = IF HasSizes(color) THEN StockOf(color.sizes.items)
                        ELSE IF color.quantity = NoNum THEN 0 ELSE color.quantity
    /\ sabor.name = IF color.name \in {Undef, << >>} THEN SemNome ELSE color.name
    /\ sabor.image = IF color.image \in {Undef, << >>} THEN Placeholder ELSE color.image
    /\ sabor.description = IF color.description = Undef THEN << >> ELSE color.description

OneFlavorPerColor(product, normalized) ==
    /\ normalized.sabores.isArray
    /\ Len(normalized.sabores.items) = Len(product.colors.items)
    /\ \A k \in 1..Len(product.colors.items) :
          FlavorOfColor(normalized.sabores.items[k], product.colors.items[k])

(***************************************************************************)
(* C12: for every product arriving with a legacy colors array,             *)
(* normalizeProducts yields one flavor per color, in the same order, whose *)
(* quantity is the sum of the color's sizes[].stock (absent stock counted  *)
(* as 0) when the color has sizes and the color's direct quantity          *)
(* (default 0) when it has none, a color with an empty sizes list keeping  *)
(* its direct quantity; name, image and description are carried over or    *)
(* defaulted.                                                              *)
(***************************************************************************)
C12_ColorsToFlavors ==
    NormalizedProducts =>
        \A i \in 1..Len(norm.once) :
            ArrivedWithColors(norm.arg.items[i]) =>
                OneFlavorPerColor(norm.arg.items[i], norm.once[i])

\* The same, for products none of whose colors has an empty sizes list.
ColorsWithSizesOrNone ==
    NormalizedProducts =>
        \A i \in 1..Len(norm.once) :
            LET product == norm.arg.items[i] IN
            /\ ArrivedWithColors(product)
            /\ \A k \in 1..Len(product.colors.items) :
                  product.colors.items[k].sizes # JsArray(<< >>)
            => OneFlavorPerColor(product, norm.once[i])

\* Sizes are summed, one of them without stock, and a direct quantity is
\* carried over.
ColorsConverted ==
    /\ NormalizedProducts
    /\ \E i \in 1..Len(norm.once) :
          /\ ArrivedWithColors(norm.arg.items[i])
          /\ \E k \in 1..Len(norm.arg.items[i].colors.items) :
                LET color == norm.arg.items[i].colors.items[k] IN
                /\ HasSizes(color)
                /\ \E n \in 1..Len(color.sizes.items) : color.sizes.items[n].stock = NoNum
                /\ norm.once[i].sabores.items[k].quantity > 0

(***************************************************************************)
(* Claims about the steps of the catalogue handlers                        *)
(***************************************************************************)
DeleteOp == "POST /api/categories/delete"

HasRow(table, id) == \E c \in table : c.id = id

\* The products the lookup of the request found.
FoundBy(request) == {p \in request.pre.products : p.category = request.arg}

\* This step removes the row of the category a delete request in flight in
\* slot s names.
RemovesRowOf(s) ==
    /\ inflight[s].op = DeleteOp
    /\ HasRow(categories, inflight[s].arg)
    /\ ~HasRow(categories', inflight[s].arg)

\* The lookup of the request in slot s has succeeded and, if it found
\* products, so has their reassignment: none of them is in the category.
ReadyToDelete(s) ==
    /\ inflight[s].calls >= 1
    /\ FoundBy(inflight[s]) # {} =>
          /\ inflight[s].calls = 2
          /\ \A p \in FoundBy(inflight[s]) :
                \E q \in products : q.id = p.id /\ q.category = Default

\* The request ended at a failure of its lookup or of its reassignment.
FailedBeforeDelete ==
    /\ last.op = DeleteOp
    /\ last.err # NoError
    /\ last.calls = 1 \/ (last.calls = 2 /\ FoundBy(last) # {})

(***************************************************************************)
(* C13: in every execution of POST /api/categories/delete for X, the row   *)
(* of X is deleted only after the lookup of the products of X has          *)
(* succeeded and, when any were found, after their reassignment to         *)
(* "default" has succeeded; if the lookup or the reassignment fails, the   *)
(* answer is 500 and the row of X is still present.                        *)
(***************************************************************************)
C13_DeleteOrder ==
    /\ [][\A s \in Slots : RemovesRowOf(s) => ReadyToDelete(s)]_vars
    /\ [](FailedBeforeDelete =>
            /\ last.status = 500
            /\ categories = last.pre.categories \/ last.inter
            /\ HasRow(last.pre.categories, last.arg) => HasRow(categories, last.arg))

\* The reassignment of the products found fails while the row is there.
C13_Witness ==
    /\ FailedBeforeDelete
    /\ last.calls = 2
    /\ HasRow(categories, last.arg)
    /\ \E p \in products : p.category = last.arg

\* The row is deleted after products were reassigned.
RowDeletedAfterReassignment ==
    /\ last.op = DeleteOp
    /\ last.status = 200
    /\ last.calls = 3
    /\ HasRow(last.pre.categories, last.arg)
    /\ ~HasRow(categories, last.arg)

SaveOp == "POST /api/products"

\* The request reached the store: it was authorized and normalized.
SaveAnswered == last.op = SaveOp /\ last.calls >= 1

\* The store calls a save of the set makes when none fails.
StepsOf(arg) == IF normalizeProducts(arg) = << >> THEN 1 ELSE 2

(***************************************************************************)
(* C14: POST /api/products reports success only when its delete step and,  *)
(* for a non-empty set, its insert step succeeded, and otherwise answers   *)
(* 500 with the message of the first failing step, with no retry and no    *)
(* rollback: if the delete fails the table is unchanged and nothing is     *)
(* inserted; if the insert fails after the delete, the products stored     *)
(* before are gone and the table is left empty.                            *)
(***************************************************************************)
C14_SaveFailure ==
    SaveAnswered =>
        /\ last.status \in {200, 500}
        /\ last.status = 200 <=> last.err = NoError
        /\ last.status = 200 => last.calls = StepsOf(last.arg)
        /\ last.err # NoError =>
              /\ last.body.error = <<"Erro ao salvar produtos: ">> \o last.err.message
              /\ last.calls <= StepsOf(last.arg)
              /\ last.calls = 1 => products = last.pre.products
              /\ last.calls = 2 => products = {}

\* The insert fails after the delete emptied a table that held products.
C14_Witness ==
    /\ SaveAnswered
    /\ last.err # NoError
    /\ last.calls = 2
    /\ last.pre.products # {}
    /\ products = {}

\* The delete fails on a table that holds products.
DeleteStepFailed ==
    /\ SaveAnswered
    /\ last.err # NoError
    /\ last.calls = 1
    /\ products # {}

(***************************************************************************)
(* Claims about saves of products in flight side by side                   *)
(***************************************************************************)
\* The rows are exactly one row per element of the normalized set.
ExactlyRowsOf(rows, arg) ==
    LET normalized == normalizeProducts(arg) IN
    /\ Cardinality(rows) = Len(normalized)
    /\ \E rowOf \in [1..Len(normalized) -> rows] :
          /\ \A i, j \in 1..Len(normalized) : rowOf[i] = rowOf[j] => i = j
          /\ \A i \in 1..Len(normalized) : RowCarries(rowOf[i], normalized[i])

\* The rows are those of the one set together with those of the other.
RowsOfBoth(rows, argA, argB) ==
    \E rowsA \in SUBSET rows :
        ExactlyRowsOf(rowsA, argA) /\ ExactlyRowsOf(rows \ rowsA, argB)

\* This step ends the second of two saves of non-empty sets whose store
\* calls overlapped, both answering success: the first answered in the step
\* before, after the delete of the one in slot s; no save is left in flight.
SecondFinishes(s) ==
    /\ last.op = SaveOp /\ last.status = 200 /\ last.calls = 2
    /\ inflight[s].op = SaveOp /\ inflight[s].pc = "insert"
    /\ last'.op = SaveOp /\ last'.status = 200 /\ last'.arg = inflight[s].arg
    /\ \A t \in Slots : inflight'[t] = Idle

(***************************************************************************)
(* C15, as stated: for every interleaving of two concurrent authorized     *)
(* POST /api/products requests with non-empty sets A and B that both       *)
(* report success, once both have finished the table holds exactly the     *)
(* normalized set of one of the two, never the union or a mixture.         *)
(***************************************************************************)
C15_AsStated ==
    [][\A s \in Slots :
          SecondFinishes(s) =>
              \/ ExactlyRowsOf(products', last.arg)
              \/ ExactlyRowsOf(products', last'.arg)]_vars

(***************************************************************************)
(* C15, amended: once both have finished, the table holds exactly the      *)
(* normalized set of one of the two requests when the delete of that one   *)
(* ran after the insert of the other, and the rows of both A and B when    *)
(* each delete ran before the other's insert; it never holds a row from    *)
(* before the requests nor a part of A or of B.                            *)
(***************************************************************************)
C15_ConcurrentSaves ==
    /\ [][\A s \in Slots :
            SecondFinishes(s) => RowsOfBoth(products', last.arg, last'.arg)]_vars
    /\ [](last.op = SaveOp /\ last.status = 200 /\ ~last.inter =>
            ExactlyRowsOf(products, last.arg))

\* Both saves have finished and the table holds the rows of both.
C15_Witness ==
    /\ last.op = SaveOp /\ last.status = 200 /\ last.inter
    /\ \A t \in Slots : inflight[t] = Idle
    /\ Cardinality(products) = 3
    /\ \E rows \in SUBSET products :
          ExactlyRowsOf(rows, ProductsAB) /\ ExactlyRowsOf(products \ rows, ProductsC)

=============================================================================
